---- MODULE Spec2Model ----
(***************************************************************************)
(* A model of automl_utils/dataloader/spec.py: the BatchConfig value       *)
(* object and the DataloaderSpec abstract base (construction, get_config,  *)
(* the search_split property and the get_dataloader factory).              *)
(*                                                                         *)
(* The abstract operations of a concrete subclass (load_dataset,           *)
(* get_default_config, get_default_search_split) and the external          *)
(* torch.utils.data.DataLoader are the environment: the subclass defaults  *)
(* are chosen in Init, the value load_dataset returns is chosen by the     *)
(* get_dataloader action, and every call made to load_dataset and to       *)
(* DataLoader is recorded.                                                 *)
(*                                                                         *)
(* A float is modelled exactly as a rational num/Denom, or as NaN.         *)
(***************************************************************************)
EXTENDS Integers, Sequences, FiniteSets

VARIABLES
    sub,    \* the concrete subclass: its static defaults
    ctor,   \* the DataloaderSpec.__init__ call: its arguments, what it raised
    self,   \* the instance: _search_split and _config_map
    last    \* the last operation: its arguments, the calls it made, its result

vars == <<sub, ctor, self, last>>

----------------------------------------------------------------------------
(* Bounds *)

Denom == 2          \* floats are the rationals n/Denom
Margin == 1         \* how far outside [0, 1] the floats reach, in 1/Denom
MaxBatch == 2       \* largest batch size
MaxLen == 1         \* largest length of a sized dataset

----------------------------------------------------------------------------
(* Python values *)

None == [kind |-> "None"]

Callable(name) == [kind |-> "Callable", name |-> name]

Float(n) == [kind |-> "float", nan |-> FALSE, num |-> n]

NaN == [kind |-> "float", nan |-> TRUE, num |-> 0]

\* Python's a < b on floats: every comparison with NaN is False.
Less(a, b) == ~a.nan /\ ~b.nan /\ a.num < b.num

Zero == Float(0)

One == Float(Denom)

ValueError(what, values) == [kind |-> "ValueError", what |-> what, values |-> values]

KeyError(key) == [kind |-> "KeyError", key |-> key]

\* A dict is its items, a function from the keys present to their values.
Dict(items) == [kind |-> "dict", items |-> items]

EmptyDict == Dict([k \in {} |-> None])

\* Python's truth value of an Optional[Mapping]: None and {} are false.
DictTruthy(d) == d.kind = "dict" /\ DOMAIN d.items # {}

Phase == {"search", "eval"}

Split == {"train", "val"}

Keys == Phase \X Split

----------------------------------------------------------------------------
(* BatchConfig *)

\* Variant: the validation admits batch_size 0.
BatchConfig_lt(batch_size, input_transform, target_transform) ==
    IF batch_size < 0
    THEN ValueError("batch_size", <<batch_size>>)
    ELSE [kind |-> "BatchConfig",
          batch_size |-> batch_size,
          input_transform |-> input_transform,
          target_transform |-> target_transform]

\* BatchConfig(batch_size, input_transform, target_transform): the dataclass
\* constructor followed by __post_init__; the result is the object or the
\* exception raised.
BatchConfig(batch_size, input_transform, target_transform) ==
    IF batch_size <= 0
    THEN ValueError("batch_size", <<batch_size>>)
    ELSE [kind |-> "BatchConfig",
          batch_size |-> batch_size,
          input_transform |-> input_transform,
          target_transform |-> target_transform]

----------------------------------------------------------------------------
(* DataloaderSpec.__init__ *)

\* Variant: `if not search_split` in place of `if search_split is None`.
ResolveSearchSplit_falsy(cls, search_split) ==
    IF search_split.kind = "None" \/ search_split = Zero
    THEN cls.default_search_split
    ELSE IF Less(search_split, Zero) \/ Less(One, search_split)
         THEN ValueError("search_split", <<search_split>>)
         ELSE search_split

\* Lines 77-81: the resolved search_split, or the exception raised.
ResolveSearchSplit(cls, search_split) ==
    IF search_split.kind = "None"
    THEN cls.default_search_split
    ELSE IF Less(search_split, Zero) \/ Less(One, search_split)
         THEN ValueError("search_split", <<search_split>>)
         ELSE search_split

\* Variant: the override is ignored.
ResolveConfigMap_defaults(cls, config_map) ==
    [k \in Keys |-> cls.default_config[k]]

\* Lines 83-90: the complete map built from the override and the defaults.
ResolveConfigMap(cls, config_map) ==
    LET overrides == IF DictTruthy(config_map) THEN config_map ELSE EmptyDict
    IN  [k \in Keys |-> IF k \in DOMAIN overrides.items
                        THEN overrides.items[k]
                        ELSE cls.default_config[k]]

\* The instance __init__ builds, or the exception that leaves none.
DataloaderSpec_init(cls, search_split, config_map) ==
    LET ss == ResolveSearchSplit(cls, search_split)
    IN  IF ss.kind = "ValueError"
        THEN ss
        ELSE [kind |-> "DataloaderSpec",
              _search_split |-> ss,
              _config_map |-> ResolveConfigMap(cls, config_map)]

----------------------------------------------------------------------------
(* Read operations *)

\* Line 144: a dict lookup, which raises KeyError on a missing key.
get_config(obj, phase, split) ==
    IF <<phase, split>> \in DOMAIN obj._config_map
    THEN obj._config_map[<<phase, split>>]
    ELSE KeyError(<<phase, split>>)

\* Line 149.
search_split(obj) == obj._search_split

----------------------------------------------------------------------------
(* DataloaderSpec.get_dataloader *)

\* Variant: search_split is passed in every phase.
ds_args_always(obj, phase) ==
    [k \in {"search_split"} |-> search_split(obj)]

\* Line 175: the keyword arguments added to the load_dataset call.
ds_args(obj, phase) ==
    IF phase = "search"
    THEN [k \in {"search_split"} |-> search_split(obj)]
    ELSE [k \in {} |-> None]

\* Lines 176-178: the call made to the subclass's load_dataset.
load_dataset_call(obj, config, phase, split, path, download) ==
    [phase |-> phase,
     split |-> split,
     path |-> path,
     input_transform |-> config.input_transform,
     target_transform |-> config.target_transform,
     download |-> download,
     kw |-> ds_args(obj, phase)]

\* Line 179: Python's truth value of what load_dataset returned. None is
\* false; an object that defines __len__ is false when its length is 0; any
\* other object is true (torch's Dataset base defines neither __len__ nor
\* __bool__).
Truthy(dset) ==
    /\ dset.kind # "None"
    /\ (dset.sized => dset.len # 0)

\* Variant: no conflict check.
BatchSizeConflict_never(kwargs, config) == FALSE

\* Variant: any batch_size in kwargs counts as a conflict.
BatchSizeConflict_any(kwargs, config) == "batch_size" \in DOMAIN kwargs

\* Line 182.
BatchSizeConflict(kwargs, config) ==
    /\ "batch_size" \in DOMAIN kwargs
    /\ kwargs["batch_size"] # config.batch_size

\* Variant: the extra options are not merged in.
MergeKwargs_drop(config, kwargs) ==
    [k \in {"batch_size"} |-> config.batch_size]

\* Line 188: {"batch_size": config.batch_size, **(kwargs or {})}.
MergeKwargs(config, kwargs) ==
    [k \in {"batch_size"} \cup DOMAIN kwargs |->
        IF k \in DOMAIN kwargs THEN kwargs[k] ELSE config.batch_size]

\* Line 189: the external torch.utils.data.DataLoader, kept as its arguments.
DataLoader(dataset, kwargs) ==
    [kind |-> "DataLoader", dataset |-> dataset, kwargs |-> kwargs]

\* Variant: the conflict check runs before the test for an absent dataset.
get_dataloader_check_first(obj, phase, split, path, download, kwargs, dset) ==
    LET config == get_config(obj, phase, split)
        loads  == <<load_dataset_call(obj, config, phase, split, path, download)>>
    IN  IF BatchSizeConflict(kwargs, config)
        THEN [self |-> obj, loads |-> loads, loaders |-> <<>>,
              ret |-> ValueError("batch_size",
                                 <<kwargs["batch_size"], config.batch_size>>)]
        ELSE IF ~Truthy(dset)
        THEN [self |-> obj, loads |-> loads, loaders |-> <<>>, ret |-> None]
        ELSE LET merged == MergeKwargs(config, kwargs)
             IN  [self |-> obj, loads |-> loads,
                  loaders |-> <<[dataset |-> dset, kwargs |-> merged]>>,
                  ret |-> DataLoader(dset, merged)]

\* Variant: the merged batch_size is written back into the stored config.
get_dataloader_write_back(obj, phase, split, path, download, kwargs, dset) ==
    LET config == get_config(obj, phase, split)
        loads  == <<load_dataset_call(obj, config, phase, split, path, download)>>
        merged == MergeKwargs(config, kwargs)
        stored == [config EXCEPT !.batch_size = merged["batch_size"]]
        after  == [obj EXCEPT !._config_map[<<phase, split>>] = stored]
    IN  IF ~Truthy(dset)
        THEN [self |-> obj, loads |-> loads, loaders |-> <<>>, ret |-> None]
        ELSE [self |-> after, loads |-> loads,
              loaders |-> <<[dataset |-> dset, kwargs |-> merged]>>,
              ret |-> DataLoader(dset, merged)]

\* get_dataloader, given the value dset that load_dataset returns: the
\* instance afterwards, the calls made to load_dataset and to DataLoader, and
\* the value returned or exception raised.
get_dataloader(obj, phase, split, path, download, kwargs, dset) ==
    LET config == get_config(obj, phase, split)
        loads  == <<load_dataset_call(obj, config, phase, split, path, download)>>
    IN  IF config.kind = "KeyError"
        THEN [self |-> obj, loads |-> <<>>, loaders |-> <<>>, ret |-> config]
        ELSE IF ~Truthy(dset)
        THEN [self |-> obj, loads |-> loads, loaders |-> <<>>, ret |-> None]
        ELSE IF BatchSizeConflict(kwargs, config)
        THEN [self |-> obj, loads |-> loads, loaders |-> <<>>,
              ret |-> ValueError("batch_size",
                                 <<kwargs["batch_size"], config.batch_size>>)]
        ELSE LET merged == MergeKwargs(config, kwargs)
             IN  [self |-> obj, loads |-> loads,
                  loaders |-> <<[dataset |-> dset, kwargs |-> merged]>>,
                  ret |-> DataLoader(dset, merged)]

----------------------------------------------------------------------------
(* The environment: subclasses, callers' arguments, datasets *)

Floats == {Float(n) : n \in (0 - Margin)..(Denom + Margin)} \cup {NaN}

\* A subclass's get_default_search_split() is not constrained by the base
\* class: below, inside and above [0, 1].
DefaultSearchSplits == {Float(0 - Margin), Float(1), Float(Denom + Margin)}

\* A subclass's get_default_config(phase, split): a BatchConfig per key, the
\* four of them distinct.
DefaultConfigMap ==
    [k \in Keys |->
        BatchConfig(IF k[1] = "search" THEN 1 ELSE MaxBatch,
                    IF k[2] = "train" THEN Callable("augment") ELSE None,
                    Callable("one_hot"))]

Subclasses ==
    [default_search_split : DefaultSearchSplits, default_config : {DefaultConfigMap}]

\* The BatchConfig a caller overrides key k with: distinct per key and
\* distinct from the defaults.
OverrideConfig(k) ==
    BatchConfig(IF k[2] = "train" THEN MaxBatch ELSE 1,
                Callable("normalize"),
                IF k[1] = "search" THEN Callable("to_index") ELSE None)

ConfigMapArgs ==
    {None} \cup {Dict([k \in S |-> OverrideConfig(k)]) : S \in SUBSET Keys}

SearchSplitArgs == {None} \cup Floats

Transforms == {None, Callable("normalize")}

\* (path, download) pairs.
Locations == {<<"/data", FALSE>>, <<"/tmp", TRUE>>}

\* **kwargs of get_dataloader.
KwargsArgs ==
    {[k \in D |-> IF k = "batch_size" THEN b ELSE 0] :
        D \in SUBSET {"batch_size", "num_workers"}, b \in 1..MaxBatch}

\* The constructor arguments of the instances get_dataloader is exercised on.
LoaderSearchSplitArgs == {None, Zero, Float(1)}

LoaderConfigMapArgs ==
    {None,
     Dict([k \in {<<"search", "train">>} |-> OverrideConfig(k)]),
     Dict([k \in {"eval"} \X Split |-> OverrideConfig(k)])}

Dataset(sized, len) == [kind |-> "Dataset", sized |-> sized, len |-> len]

\* What load_dataset may return: None, a dataset without __len__, or a sized
\* dataset of any length, 0 included.
LoadResults ==
    {None, Dataset(FALSE, 0)} \cup {Dataset(TRUE, n) : n \in 0..MaxLen}

----------------------------------------------------------------------------
(* The state machine *)

NoInstance == [kind |-> "NoInstance"]

Init ==
    /\ sub \in Subclasses
    /\ ctor = [called |-> FALSE]
    /\ self = NoInstance
    /\ last = [op |-> "none"]

\* A caller constructs a BatchConfig.
NewBatchConfig ==
    \E b \in (0 - 1)..MaxBatch, it \in Transforms, tt \in Transforms :
        /\ last' = [op |-> "BatchConfig",
                    batch_size |-> b,
                    input_transform |-> it,
                    target_transform |-> tt,
                    ret |-> BatchConfig(b, it, tt)]
        /\ UNCHANGED <<sub, ctor, self>>

\* A caller constructs the subclass: DataloaderSpec.__init__ runs.
Construct(SearchSplits, ConfigMaps) ==
    \E ss \in SearchSplits, cm \in ConfigMaps :
        LET r == DataloaderSpec_init(sub, ss, cm)
        IN  /\ ~ctor.called
            /\ ctor' = [called |-> TRUE, search_split |-> ss, config_map |-> cm,
                        raised |-> IF r.kind = "DataloaderSpec" THEN None ELSE r]
            /\ self' = IF r.kind = "DataloaderSpec" THEN r ELSE NoInstance
            /\ last' = [op |-> "__init__", ret |-> r]
            /\ UNCHANGED sub

GetConfig ==
    \E p \in Phase, s \in Split :
        /\ self.kind = "DataloaderSpec"
        /\ last' = [op |-> "get_config", phase |-> p, split |-> s,
                    ret |-> get_config(self, p, s)]
        /\ UNCHANGED <<sub, ctor, self>>

ReadSearchSplit ==
    /\ self.kind = "DataloaderSpec"
    /\ last' = [op |-> "search_split", ret |-> search_split(self)]
    /\ UNCHANGED <<sub, ctor, self>>

GetDataloader ==
    \E p \in Phase, s \in Split, loc \in Locations,
       kwargs \in KwargsArgs, dset \in LoadResults :
        LET r == get_dataloader(self, p, s, loc[1], loc[2], kwargs, dset)
        IN  /\ self.kind = "DataloaderSpec"
            /\ self' = r.self
            /\ last' = [op |-> "get_dataloader",
                        phase |-> p, split |-> s,
                        path |-> loc[1], download |-> loc[2],
                        kwargs |-> kwargs,
                        dset |-> dset,
                        loads |-> r.loads,
                        loaders |-> r.loaders,
                        ret |-> r.ret]
            /\ UNCHANGED <<sub, ctor>>

\* Construction and the read operations, over every constructor argument.
NextInit ==
    \/ NewBatchConfig
    \/ Construct(SearchSplitArgs, ConfigMapArgs)
    \/ GetConfig
    \/ ReadSearchSplit

SpecInit == Init /\ [][NextInit]_vars

\* The operations of a constructed instance, over every get_dataloader call.
Next ==
    \/ Construct(LoaderSearchSplitArgs, LoaderConfigMapArgs)
    \/ GetConfig
    \/ ReadSearchSplit
    \/ GetDataloader

Spec == Init /\ [][Next]_vars

----------------------------------------------------------------------------
(* Properties *)

\* x lies in [0, 1].
InUnit(x) == ~x.nan /\ 0 <= x.num /\ x.num <= Denom

\* The BatchConfig the instance holds for the key of the last call.
StoredConfig == self._config_map[<<last.phase, last.split>>]

\* What the constructor's arguments and the subclass say key k resolves to.
ExpectedConfig(k) ==
    IF ctor.config_map.kind = "dict" /\ k \in DOMAIN ctor.config_map.items
    THEN ctor.config_map.items[k]
    ELSE sub.default_config[k]

Built == self.kind = "DataloaderSpec"

Called == last.op = "get_dataloader"

KwargsConflict ==
    /\ "batch_size" \in DOMAIN last.kwargs
    /\ last.kwargs["batch_size"] # StoredConfig.batch_size

\* load_dataset returned a value Python treats as true: a dataset without a
\* length, or one of length > 0.
DatasetPresent ==
    /\ last.dset.kind = "Dataset"
    /\ (~last.dset.sized \/ last.dset.len > 0)

\* C1: after a successful construction the stored map has exactly the four
\* keys, and get_config returns the caller's BatchConfig for a key in the
\* override and the subclass default for a key that is not.
C1_ConfigResolution ==
    Built =>
        /\ DOMAIN self._config_map = Keys
        /\ \A k \in Keys : get_config(self, k[1], k[2]) = ExpectedConfig(k)
        /\ last.op = "get_config" =>
                last.ret = ExpectedConfig(<<last.phase, last.split>>)

\* get_config has returned an overridden entry of a partial override.
C1_Witness ==
    /\ Built
    /\ last.op = "get_config"
    /\ ctor.config_map.kind = "dict"
    /\ <<last.phase, last.split>> \in DOMAIN ctor.config_map.items
    /\ DOMAIN ctor.config_map.items # Keys
    /\ last.ret = ctor.config_map.items[<<last.phase, last.split>>]
    /\ last.ret # sub.default_config[<<last.phase, last.split>>]

\* C3: every constructed instance has a search_split in [0, 1], whether it
\* came from the caller or from the subclass default.
C3_SearchSplitInUnit ==
    Built => InUnit(self._search_split)

\* C4: a supplied search_split makes construction fail exactly when it is
\* < 0 or > 1, and then no instance exists; a supplied value in [0, 1] is
\* the value the property returns; without one the property returns the
\* subclass default.
C4_SearchSplitValidation ==
    ctor.called =>
        LET ss     == ctor.search_split
            failed == ctor.raised.kind = "ValueError"
        IN  /\ failed => self = NoInstance
            /\ ~failed => Built
            /\ ss.kind = "float" =>
                    /\ failed <=> (Less(ss, Zero) \/ Less(One, ss))
                    /\ InUnit(ss) => ~failed /\ self._search_split = ss
                    /\ ~failed /\ last.op = "search_split" => last.ret = ss
            /\ ss.kind = "None" =>
                    /\ ~failed
                    /\ self._search_split = sub.default_search_split
                    /\ last.op = "search_split" =>
                            last.ret = sub.default_search_split

\* The property has returned a supplied endpoint 0.
C4_Witness ==
    /\ Built
    /\ ctor.search_split = Zero
    /\ last.op = "search_split"
    /\ last.ret = Zero

\* C7: BatchConfig construction fails for every batch_size <= 0 and
\* otherwise stores its three arguments unchanged.
C7_BatchConfigValidation ==
    last.op = "BatchConfig" =>
        IF last.batch_size <= 0
        THEN last.ret.kind = "ValueError"
        ELSE /\ last.ret.kind = "BatchConfig"
             /\ last.ret.batch_size = last.batch_size
             /\ last.ret.input_transform = last.input_transform
             /\ last.ret.target_transform = last.target_transform

\* BatchConfig construction with batch_size 0 has failed.
C7_Witness ==
    /\ last.op = "BatchConfig"
    /\ last.batch_size = 0
    /\ last.ret.kind = "ValueError"

\* C2 as stated: whatever load_dataset returns, a batch_size in the extra
\* options that differs from the resolved config's makes get_dataloader fail
\* with the conflict error citing both values, and no dataloader is built.
C2_ConflictAlwaysFails ==
    Called /\ KwargsConflict =>
        /\ last.ret.kind = "ValueError"
        /\ last.ret.values = <<last.kwargs["batch_size"], StoredConfig.batch_size>>
        /\ last.loaders = <<>>

\* C2 amended: the conflict error is raised when load_dataset returned a
\* dataset Python treats as true (not None, not a sized dataset of length
\* 0); the test for an absent dataset comes first.
C2_ConflictFailsOnPresentDataset ==
    Called /\ KwargsConflict /\ DatasetPresent =>
        /\ last.ret.kind = "ValueError"
        /\ last.ret.values = <<last.kwargs["batch_size"], StoredConfig.batch_size>>
        /\ last.loaders = <<>>

\* A conflicting batch_size over a present dataset has raised.
C2_Witness ==
    /\ Called
    /\ KwargsConflict
    /\ DatasetPresent
    /\ last.ret.kind = "ValueError"

\* C5: when load_dataset returns None, get_dataloader returns None and
\* builds no dataloader, whatever the extra options.
C5_AbsentDatasetReturnsNone ==
    Called /\ last.dset.kind = "None" =>
        /\ last.ret = None
        /\ last.loaders = <<>>

\* None was returned for an absent dataset although the extra options
\* carried a conflicting batch_size.
C5_Witness ==
    /\ Called
    /\ last.dset.kind = "None"
    /\ KwargsConflict
    /\ last.ret = None

\* C6: get_dataloader calls load_dataset exactly once, with its own phase,
\* split, path and download flag and the transforms of the resolved config;
\* search_split is passed, equal to the instance's, exactly in the search
\* phase.
C6_LoadDatasetCall ==
    Called =>
        /\ Len(last.loads) = 1
        /\ last.loads[1].phase = last.phase
        /\ last.loads[1].split = last.split
        /\ last.loads[1].path = last.path
        /\ last.loads[1].download = last.download
        /\ last.loads[1].input_transform = StoredConfig.input_transform
        /\ last.loads[1].target_transform = StoredConfig.target_transform
        /\ last.phase = "search" =>
                /\ DOMAIN last.loads[1].kw = {"search_split"}
                /\ last.loads[1].kw["search_split"] = self._search_split
        /\ last.phase = "eval" => DOMAIN last.loads[1].kw = {}

\* A search-phase call has passed the subclass's default search_split on.
C6_Witness ==
    /\ Called
    /\ last.phase = "search"
    /\ ctor.search_split = None
    /\ Len(last.loads) = 1
    /\ last.loads[1].kw["search_split"] = sub.default_search_split

\* C8: once the instance is constructed no operation changes its
\* search_split or its config_map.
C8_ReadOnlyAfterConstruction ==
    [][Built => self' = self]_vars

\* A get_dataloader call that was given a batch_size has built a dataloader.
C8_Witness ==
    /\ Called
    /\ "batch_size" \in DOMAIN last.kwargs
    /\ last.ret.kind = "DataLoader"
    /\ self._config_map[<<last.phase, last.split>>] = ExpectedConfig(<<last.phase, last.split>>)

\* C9: a dataloader is built over the dataset load_dataset returned, with
\* the resolved config's batch_size, every other extra option unchanged and
\* nothing else.
C9_DataLoaderArguments ==
    Called /\ last.loaders # <<>> =>
        /\ Len(last.loaders) = 1
        /\ last.loaders[1].dataset = last.dset
        /\ DOMAIN last.loaders[1].kwargs = DOMAIN last.kwargs \cup {"batch_size"}
        /\ last.loaders[1].kwargs["batch_size"] = StoredConfig.batch_size
        /\ \A k \in DOMAIN last.kwargs \ {"batch_size"} :
                last.loaders[1].kwargs[k] = last.kwargs[k]
        /\ last.ret = DataLoader(last.loaders[1].dataset, last.loaders[1].kwargs)

\* A dataloader was built from extra options that carry both a batch_size
\* and another option.
C9_Witness ==
    /\ Called
    /\ Len(last.loaders) = 1
    /\ DOMAIN last.kwargs = {"batch_size", "num_workers"}
    /\ last.loaders[1].kwargs["num_workers"] = last.kwargs["num_workers"]

\* C10 as stated: None is returned only if load_dataset returned None; any
\* dataset object, one of length 0 included, with extra options that do not
\* conflict, yields a dataloader over it.
C10_AnyDatasetYieldsLoader ==
    Called =>
        /\ last.ret = None => last.dset.kind = "None"
        /\ last.dset.kind = "Dataset" /\ ~KwargsConflict =>
                /\ last.ret.kind = "DataLoader"
                /\ last.ret.dataset = last.dset

\* C10 amended: None is returned only if load_dataset returned a value
\* Python treats as false (None, or a sized dataset of length 0); a dataset
\* without a length or of length > 0, with extra options that do not
\* conflict, yields a dataloader over it.
C10_PresentDatasetYieldsLoader ==
    Called =>
        /\ last.ret = None => ~DatasetPresent
        /\ DatasetPresent /\ ~KwargsConflict =>
                /\ last.ret.kind = "DataLoader"
                /\ last.ret.dataset = last.dset

\* A dataloader was returned for a present dataset and an agreeing
\* batch_size in the extra options.
C10_Witness ==
    /\ Called
    /\ DatasetPresent
    /\ "batch_size" \in DOMAIN last.kwargs
    /\ ~KwargsConflict
    /\ last.ret.kind = "DataLoader"
    /\ last.ret.dataset = last.dset

====
